---- MODULE Spec2Model ----
(***************************************************************************)
(* Model of Server::scrape (src/models/servers.rs): backend resolution,    *)
(* repository-set reconciliation, per-repository collection and metadata   *)
(* merge.  One scrape of one server is a sequential task that suspends at  *)
(* every HTTP fetch; each action runs the code from one suspension point   *)
(* to the next.  The remote server is the environment: it chooses the      *)
(* reply to each request when the request is answered.                     *)
(***************************************************************************)
EXTENDS Integers, Sequences, FiniteSets, TLC

\* ---------------------------------------------------------------- bounds
NumNames == 2
MaxRepos == 2
MaxDocLen == 1

\* ------------------------------------------------------- Option / Result
None == <<>>
Some(v) == <<v>>
IsSome(o) == o # <<>>
Unwrap(o) == o[1]

Ok(v) == [ok |-> TRUE, val |-> v]
Err(e) == [ok |-> FALSE, err |-> e]

\* ------------------------------------------------------------ enumerations
ServerType == {"Stratum0", "Stratum1", "SyncServer"}

ServerBackendType == {"S3", "CVMFS", "AutoDetect"}

Hostnames == {"cvmfs.example.org"}

Server == [server_type : ServerType, backend_type : ServerBackendType, hostname : Hostnames]

\* ------------------------------------------------------- repository names
\* Repository names are strings; NameUniverse lists them in ascending
\* lexicographic order, so that the position gives String's Ord.
NameUniverse == <<"a", "b", "c", "d", "e", "f">>

Names == {NameUniverse[i] : i \in 1..NumNames}

NameIndex(n) == CHOOSE i \in 1..Len(NameUniverse) : NameUniverse[i] = n

NameLess(x, y) == NameIndex(x) < NameIndex(y)

SeqUpTo(S, n) == UNION {[1..k -> S] : k \in 0..n}

SeqToSet(s) == {s[i] : i \in 1..Len(s)}

\* ------------------------------------------------------------- BTreeSet
\* A BTreeSet<String> is a strictly ascending sequence: insertion keeps the
\* order and drops a value that is already present.
\* An ordered insertion that keeps a value already present (a sorted Vec).
BTreeInsert_KeepsDuplicates(set, x) ==
    LET k == Cardinality({i \in 1..Len(set) : NameLess(set[i], x)})
    IN SubSeq(set, 1, k) \o <<x>> \o SubSeq(set, k + 1, Len(set))

\* An insertion that drops a value already present but appends a new one
\* (insertion order instead of ascending order).
BTreeInsert_Unordered(set, x) ==
    IF \E i \in 1..Len(set) : set[i] = x
    THEN set
    ELSE Append(set, x)

BTreeInsert(set, x) ==
    IF \E i \in 1..Len(set) : set[i] = x
    THEN set
    ELSE LET k == Cardinality({i \in 1..Len(set) : NameLess(set[i], x)})
         IN SubSeq(set, 1, k) \o <<x>> \o SubSeq(set, k + 1, Len(set))

\* An extend that appends the new items in the order they arrive (a Vec).
BTreeExtend_Appends(set, items) == set \o items

RECURSIVE BTreeExtend(_, _)
BTreeExtend(set, items) ==
    IF items = <<>> THEN set
    ELSE BTreeExtend(BTreeInsert(set, Head(items)), Tail(items))

BTreeCollect(items) == BTreeExtend(<<>>, items)

\* ------------------------------------------------------------------ errors
\* ScrapeError kinds are strings; CVMFSScraperError wraps a ScrapeError or a
\* ManifestError.
FromScrapeError(e) == [variant |-> "ScrapeError", error |-> e]

FromManifestError(e) == [variant |-> "ManifestError", error |-> e]

\* ------------------------------------------------- semantic version strings
\* A version string is the sequence of its dot-separated tokens and dots.
DigitVal == ("0" :> 0) @@ ("1" :> 1) @@ ("2" :> 2) @@ ("9" :> 9)

IsNumericToken(t) == t \in DOMAIN DigitVal

\* v.parse::<semver::Version>(): MAJOR "." MINOR "." PATCH, all numeric.
ParseVersion(v) ==
    IF /\ Len(v) = 5
       /\ IsNumericToken(v[1]) /\ v[2] = "." /\ IsNumericToken(v[3])
       /\ v[4] = "." /\ IsNumericToken(v[5])
    THEN Ok([major |-> DigitVal[v[1]], minor |-> DigitVal[v[3]], patch |-> DigitVal[v[5]]])
    ELSE Err("ConversionError")

\* ------------------------------------------------------------ documents
\* repositories.json as decoded by RepositoriesJSON.
DocEntryLists ==
    {p \in SeqUpTo(Names, MaxDocLen) \X SeqUpTo(Names, MaxDocLen) : Len(p[1]) + Len(p[2]) <= MaxDocLen}

DocEntries(s) == [i \in 1..Len(s) |-> [name |-> s[i]]]

DocHeaders ==
    { [schema |-> 1, cvmfs_version |-> Some(<<"2", ".", "9", ".", "0">>),
       last_geodb_update |-> Some("Tue, 01 Jul 2025 10:52:37 +0000"),
       os_version_id |-> Some("9.4"), os_pretty_name |-> Some("Rocky Linux 9.4"), os_id |-> Some("rocky")],
      [schema |-> 1, cvmfs_version |-> None, last_geodb_update |-> None,
       os_version_id |-> None, os_pretty_name |-> None, os_id |-> None],
      [schema |-> 1, cvmfs_version |-> Some(<<"2", ".", "9">>), last_geodb_update |-> None,
       os_version_id |-> Some("9.4"), os_pretty_name |-> None, os_id |-> Some("rocky")] }

RepositoriesJSON ==
    { [schema |-> h.schema, cvmfs_version |-> h.cvmfs_version,
       last_geodb_update |-> h.last_geodb_update, os_version_id |-> h.os_version_id,
       os_pretty_name |-> h.os_pretty_name, os_id |-> h.os_id,
       repositories |-> DocEntries(p[1]), replicas |-> DocEntries(p[2])]
      : h \in DocHeaders, p \in DocEntryLists }

repositories_and_replicas(doc) == doc.repositories \o doc.replicas

EntryNames(entries) == [i \in 1..Len(entries) |-> entries[i].name]

\* meta.json as decoded by MetaJSON.
MetaJSON ==
    { [administrator |-> "Jane Doe", email |-> "jane@example.org",
       organisation |-> "Example Org", custom |-> "{}"],
      [administrator |-> "", email |-> "ops@example.org",
       organisation |-> "Other Org", custom |-> "{\"tier\": 1}"] }

\* .cvmfs_status.json as decoded by StatusJSON.
StatusJSON ==
    { [last_snapshot |-> Some("Mon, 30 Jun 2025 08:00:00 +0000"), last_gc |-> None] }

\* .cvmfspublished as decoded by Manifest::from_str; s is the revision.
Manifest == { [s |-> 7] }

\* ---------------------------------------------------- replies of the remote
\* fetch_json yields the decoded document, a FetchError (transport failure or
\* non-2xx status) or another ScrapeError (the body does not decode).
FetchJsonErrors == {"FetchError", "ParseError"}

ReposJsonReplies == {Ok(d) : d \in RepositoriesJSON} \cup {Err(e) : e \in FetchJsonErrors}

MetaJsonReplies == {Ok(d) : d \in MetaJSON} \cup {Err(e) : e \in FetchJsonErrors}

StatusJsonReplies == {Ok(d) : d \in StatusJSON} \cup {Err(e) : e \in FetchJsonErrors}

\* fetch_repository_manifest: the request fails, or the text fails to parse,
\* or the manifest is returned.
ManifestErrors == {"RequestError", "ParseError"}

ManifestReplies == {Ok(m) : m \in Manifest} \cup {Err(e) : e \in ManifestErrors}

\* -------------------------------------------------------------------- URLs
ReposJsonUrl(srv) == [host |-> srv.hostname, path |-> "info/v1/repositories.json", repo |-> ""]

MetaJsonUrl(srv) == [host |-> srv.hostname, path |-> "info/v1/meta.json", repo |-> ""]

StatusJsonUrl(srv, name) == [host |-> srv.hostname, path |-> ".cvmfs_status.json", repo |-> name]

ManifestUrl(srv, name) == [host |-> srv.hostname, path |-> ".cvmfspublished", repo |-> name]

\* ---------------------------------------------------------------- metadata
EmptyMetadataFromRepoJSON ==
    [schema_version |-> None, cvmfs_version |-> None, last_geodb_update |-> None,
     os_version_id |-> None, os_pretty_name |-> None, os_id |-> None]

\* try_from that drops a version string that does not parse (.ok()).
MetadataFromRepoJSON_try_from_DropsBadVersion(doc) ==
    LET parsed == IF IsSome(doc.cvmfs_version)
                  THEN ParseVersion(Unwrap(doc.cvmfs_version))
                  ELSE Ok(None)
    IN Ok([schema_version |-> Some(doc.schema),
           cvmfs_version |-> IF IsSome(doc.cvmfs_version) /\ parsed.ok
                             THEN Some(parsed.val) ELSE None,
           last_geodb_update |-> doc.last_geodb_update,
           os_version_id |-> doc.os_version_id,
           os_pretty_name |-> doc.os_pretty_name,
           os_id |-> doc.os_id])

MetadataFromRepoJSON_try_from(doc) ==
    LET parsed == IF IsSome(doc.cvmfs_version)
                  THEN ParseVersion(Unwrap(doc.cvmfs_version))
                  ELSE Ok(None)
    IN IF ~parsed.ok THEN Err(parsed.err)
       ELSE Ok([schema_version |-> Some(doc.schema),
                cvmfs_version |-> IF IsSome(doc.cvmfs_version) THEN Some(parsed.val) ELSE None,
                last_geodb_update |-> doc.last_geodb_update,
                os_version_id |-> doc.os_version_id,
                os_pretty_name |-> doc.os_pretty_name,
                os_id |-> doc.os_id])

ServerMetadata_from(meta) ==
    [schema_version |-> None, cvmfs_version |-> None, last_geodb_update |-> None,
     os_version_id |-> None, os_pretty_name |-> None, os_id |-> None,
     administrator |-> Some(meta.administrator), email |-> Some(meta.email),
     organisation |-> Some(meta.organisation), custom |-> Some(meta.custom)]

\* merge_repo_metadata that rebuilds the record from the repositories.json
\* fields alone.
merge_repo_metadata_Rebuilds(sm, repo_meta) ==
    [schema_version |-> repo_meta.schema_version,
     cvmfs_version |-> repo_meta.cvmfs_version,
     last_geodb_update |-> repo_meta.last_geodb_update,
     os_version_id |-> repo_meta.os_version_id,
     os_pretty_name |-> repo_meta.os_pretty_name,
     os_id |-> repo_meta.os_id,
     administrator |-> None, email |-> None, organisation |-> None, custom |-> None]

merge_repo_metadata(sm, repo_meta) ==
    [sm EXCEPT !.schema_version = repo_meta.schema_version,
               !.cvmfs_version = repo_meta.cvmfs_version,
               !.last_geodb_update = repo_meta.last_geodb_update,
               !.os_version_id = repo_meta.os_version_id,
               !.os_pretty_name = repo_meta.os_pretty_name,
               !.os_id = repo_meta.os_id]

merge_metadata(repo_meta, meta_json) ==
    LET server_metadata ==
            IF IsSome(meta_json)
            THEN ServerMetadata_from(Unwrap(meta_json))
            ELSE [schema_version |-> None, cvmfs_version |-> None, last_geodb_update |-> None,
                  os_version_id |-> None, os_pretty_name |-> None, os_id |-> None,
                  administrator |-> None, email |-> None, organisation |-> None, custom |-> None]
    IN merge_repo_metadata(server_metadata, repo_meta)

\* ------------------------------------------------------------------- state
VARIABLES
    server,            \* the Server descriptor (self)
    repositories,      \* the caller-supplied list of names
    pc,                \* the suspension point of the scrape
    pending,           \* the request in flight, if any
    requests,          \* every request issued so far, in order
    replies,           \* the reply to each answered request, in order
    repo_json,         \* the decoded repositories.json, once fetched
    all_repos,         \* the BTreeSet of names to scrape
    iter,              \* the names the for loop has not completed yet
    repo_status,       \* the status document of the repository being scraped
    populated_repos,   \* the records collected so far
    backend_detected,
    metadata,          \* the MetadataFromRepoJSON local
    outcome            \* the ScrapedServer returned, once returned

vars == <<server, repositories, pc, pending, requests, replies, repo_json, all_repos,
          iter, repo_status, populated_repos, backend_detected, metadata, outcome>>

\* ------------------------------------------------------------- outcomes
\* as_failed_server that records the default backend type.
as_failed_server_DefaultBackend(srv, error) ==
    [hostname |-> srv.hostname, server_type |-> srv.server_type,
     backend_type |-> "AutoDetect", error |-> error]

as_failed_server(srv, error) ==
    [hostname |-> srv.hostname, server_type |-> srv.server_type,
     backend_type |-> srv.backend_type, error |-> error]

Failed(failed) == [variant |-> "Failed", failed |-> failed]

PopulatedServer(srv, detected, repos, md) ==
    [server_type |-> srv.server_type, backend_type |-> srv.backend_type,
     backend_detected |-> detected, hostname |-> srv.hostname,
     repositories |-> repos, metadata |-> md]

Populated(populated) == [variant |-> "Populated", populated |-> populated]

\* ------------------------------------------------ reading a ScrapedServer
\* GenericError::TypeError(format!("{} is a failed server", hostname)).
TypeError(hostname, what) == [variant |-> "TypeError", message |-> <<hostname, what>>]

is_failed(scraped) == scraped.variant = "Failed"

is_ok(scraped) == scraped.variant = "Populated"

\* get_populated_server that hands out the server data of either variant.
get_populated_server_Unchecked(scraped) ==
    IF scraped.variant = "Populated"
    THEN Ok(scraped.populated)
    ELSE Ok(scraped.failed)

get_populated_server(scraped) ==
    IF scraped.variant = "Populated"
    THEN Ok(scraped.populated)
    ELSE Err(TypeError(scraped.failed.hostname, " is a failed server"))

get_failed_server(scraped) ==
    IF scraped.variant = "Failed"
    THEN Ok(scraped.failed)
    ELSE Err(TypeError(scraped.populated.hostname, " is a populated server"))

\* ---------------------------------------------------- backend resolution
validate_repo_json_and_server_type(srv, doc) ==
    LET no_replicas == (doc.replicas = <<>>)
    IN IF srv.server_type = "Stratum0" /\ ~no_replicas
       THEN Err(FromScrapeError("ServerTypeMismatch"))
       ELSE IF srv.server_type = "Stratum1" /\ no_replicas
       THEN Err(FromScrapeError("ServerTypeMismatch"))
       ELSE IF srv.server_type = "SyncServer" /\ no_replicas
       THEN Err(FromScrapeError("ServerTypeMismatch"))
       ELSE Ok(TRUE)

\* InitialLocals with the schema version preset.
InitialLocals_DefaultSchema(srv, repos) ==
    [all_repos |-> BTreeCollect(repos),
     backend_detected |-> srv.backend_type,
     metadata |-> [EmptyMetadataFromRepoJSON EXCEPT !.schema_version = Some(1)]]

\* The locals of scrape before the match on backend_type.
InitialLocals(srv, repos) ==
    [all_repos |-> BTreeCollect(repos),
     backend_detected |-> srv.backend_type,
     metadata |-> EmptyMetadataFromRepoJSON]

\* resolve_AutoDetect without the assignment of backend_detected on success.
resolve_AutoDetect_KeepsConfigured(srv, locals, fetched) ==
    IF fetched.ok
    THEN LET doc == fetched.val
             valid == validate_repo_json_and_server_type(srv, doc)
             meta == MetadataFromRepoJSON_try_from(doc)
         IN IF ~valid.ok THEN Err(valid.err)
            ELSE IF ~meta.ok THEN Err(FromScrapeError(meta.err))
            ELSE Ok([all_repos |-> BTreeExtend(locals.all_repos,
                                               EntryNames(repositories_and_replicas(doc))),
                     backend_detected |-> locals.backend_detected,
                     metadata |-> meta.val])
    ELSE IF fetched.err = "FetchError"
         THEN Ok([locals EXCEPT !.backend_detected = "S3"])
         ELSE Err(FromScrapeError(fetched.err))

\* resolve_AutoDetect with every fetch error propagated.
resolve_AutoDetect_FetchErrorFatal(srv, locals, fetched) ==
    IF fetched.ok
    THEN LET doc == fetched.val
             valid == validate_repo_json_and_server_type(srv, doc)
             meta == MetadataFromRepoJSON_try_from(doc)
         IN IF ~valid.ok THEN Err(valid.err)
            ELSE IF ~meta.ok THEN Err(FromScrapeError(meta.err))
            ELSE Ok([all_repos |-> BTreeExtend(locals.all_repos,
                                               EntryNames(repositories_and_replicas(doc))),
                     backend_detected |-> "CVMFS",
                     metadata |-> meta.val])
    ELSE Err(FromScrapeError(fetched.err))

\* resolve_AutoDetect with every fetch error taken as evidence of S3.
resolve_AutoDetect_AnyErrorIsS3(srv, locals, fetched) ==
    IF fetched.ok
    THEN LET doc == fetched.val
             valid == validate_repo_json_and_server_type(srv, doc)
             meta == MetadataFromRepoJSON_try_from(doc)
         IN IF ~valid.ok THEN Err(valid.err)
            ELSE IF ~meta.ok THEN Err(FromScrapeError(meta.err))
            ELSE Ok([all_repos |-> BTreeExtend(locals.all_repos,
                                               EntryNames(repositories_and_replicas(doc))),
                     backend_detected |-> "CVMFS",
                     metadata |-> meta.val])
    ELSE Ok([locals EXCEPT !.backend_detected = "S3"])

\* resolve_AutoDetect with the S3 arm's emptiness check after a FetchError.
resolve_AutoDetect_RejectsEmpty(srv, locals, fetched) ==
    IF fetched.ok
    THEN LET doc == fetched.val
             valid == validate_repo_json_and_server_type(srv, doc)
             meta == MetadataFromRepoJSON_try_from(doc)
         IN IF ~valid.ok THEN Err(valid.err)
            ELSE IF ~meta.ok THEN Err(FromScrapeError(meta.err))
            ELSE Ok([all_repos |-> BTreeExtend(locals.all_repos,
                                               EntryNames(repositories_and_replicas(doc))),
                     backend_detected |-> "CVMFS",
                     metadata |-> meta.val])
    ELSE IF fetched.err = "FetchError"
         THEN IF locals.all_repos = <<>>
              THEN Err(FromScrapeError("EmptyRepositoryList"))
              ELSE Ok([locals EXCEPT !.backend_detected = "S3"])
         ELSE Err(FromScrapeError(fetched.err))

\* The AutoDetect arm, given the result of fetch_repos_json.
resolve_AutoDetect(srv, locals, fetched) ==
    IF fetched.ok
    THEN LET doc == fetched.val
             valid == validate_repo_json_and_server_type(srv, doc)
             meta == MetadataFromRepoJSON_try_from(doc)
         IN IF ~valid.ok THEN Err(valid.err)
            ELSE IF ~meta.ok THEN Err(FromScrapeError(meta.err))
            ELSE Ok([all_repos |-> BTreeExtend(locals.all_repos,
                                               EntryNames(repositories_and_replicas(doc))),
                     backend_detected |-> "CVMFS",
                     metadata |-> meta.val])
    ELSE IF fetched.err = "FetchError"
         THEN Ok([locals EXCEPT !.backend_detected = "S3"])
         ELSE Err(FromScrapeError(fetched.err))

\* resolve_S3 without the emptiness check.
resolve_S3_AcceptsEmpty(srv, locals) == Ok(locals)

\* The S3 arm.
resolve_S3(srv, locals) ==
    IF locals.all_repos = <<>>
    THEN Err(FromScrapeError("EmptyRepositoryList"))
    ELSE Ok(locals)

\* resolve_CVMFS without the extension of all_repos by the document's names.
resolve_CVMFS_NoExtend(srv, locals, fetched) ==
    IF ~fetched.ok THEN Err(FromScrapeError(fetched.err))
    ELSE LET doc == fetched.val
             meta == MetadataFromRepoJSON_try_from(doc)
             valid == validate_repo_json_and_server_type(srv, doc)
         IN IF ~meta.ok THEN Err(FromScrapeError(meta.err))
            ELSE IF ~valid.ok THEN Err(valid.err)
            ELSE Ok([locals EXCEPT !.metadata = meta.val])

\* resolve_CVMFS with a FetchError downgraded to S3, as in the AutoDetect arm.
resolve_CVMFS_DowngradesFetchError(srv, locals, fetched) ==
    IF ~fetched.ok
    THEN IF fetched.err = "FetchError"
         THEN Ok([locals EXCEPT !.backend_detected = "S3"])
         ELSE Err(FromScrapeError(fetched.err))
    ELSE LET doc == fetched.val
             meta == MetadataFromRepoJSON_try_from(doc)
             valid == validate_repo_json_and_server_type(srv, doc)
         IN IF ~meta.ok THEN Err(FromScrapeError(meta.err))
            ELSE IF ~valid.ok THEN Err(valid.err)
            ELSE Ok([locals EXCEPT
                        !.all_repos = BTreeExtend(locals.all_repos,
                                                  EntryNames(repositories_and_replicas(doc))),
                        !.metadata = meta.val])

\* The CVMFS arm, given the result of fetch_repos_json.
resolve_CVMFS(srv, locals, fetched) ==
    IF ~fetched.ok THEN Err(FromScrapeError(fetched.err))
    ELSE LET doc == fetched.val
             meta == MetadataFromRepoJSON_try_from(doc)
             valid == validate_repo_json_and_server_type(srv, doc)
         IN IF ~meta.ok THEN Err(FromScrapeError(meta.err))
            ELSE IF ~valid.ok THEN Err(valid.err)
            ELSE Ok([locals EXCEPT
                        !.all_repos = BTreeExtend(locals.all_repos,
                                                  EntryNames(repositories_and_replicas(doc))),
                        !.metadata = meta.val])

\* -------------------------------------------------- repository collection
\* scrape_status that falls back to an empty status document on error.
scrape_status_DefaultsOnError(fetched) ==
    IF fetched.ok THEN Ok(fetched.val)
    ELSE Ok([last_snapshot |-> None, last_gc |-> None])

\* RepositoryOrReplica::scrape up to the first await's result.
scrape_status(fetched) ==
    IF fetched.ok THEN Ok(fetched.val) ELSE Err(FromScrapeError(fetched.err))

\* scrape_manifest that falls back to an empty manifest on error.
scrape_manifest_DefaultsOnError(name, status, fetched) ==
    Ok([name |-> name,
        manifest |-> IF fetched.ok THEN fetched.val ELSE [s |-> 0],
        last_snapshot |-> status.last_snapshot, last_gc |-> status.last_gc])

\* RepositoryOrReplica::scrape from the manifest fetch's result on.
scrape_manifest(name, status, fetched) ==
    IF fetched.ok
    THEN Ok([name |-> name, manifest |-> fetched.val,
             last_snapshot |-> status.last_snapshot, last_gc |-> status.last_gc])
    ELSE Err(FromManifestError(fetched.err))

\* A best-effort loop body: a repository that fails is skipped.
collect_repo_SkipsFailed(srv, populated, scraped) ==
    IF scraped.ok
    THEN Ok(Append(populated, scraped.val))
    ELSE Ok(populated)

\* The body of the for loop, given the result of repo.scrape.
collect_repo(srv, populated, scraped) ==
    IF scraped.ok
    THEN Ok(Append(populated, scraped.val))
    ELSE Err(scraped.err)

\* scrape_finish with the meta.json error propagated.
scrape_finish_MetaFatal(srv, detected, populated, repo_meta, fetched) ==
    IF ~fetched.ok
    THEN Failed(as_failed_server(srv, FromScrapeError(fetched.err)))
    ELSE Populated(PopulatedServer(srv, detected, populated,
                                   merge_metadata(repo_meta, Some(fetched.val))))

\* scrape after the for loop, given the result of fetch_meta_json: a failed
\* fetch is None, the metadata is merged and the Populated outcome is built.
scrape_finish(srv, detected, populated, repo_meta, fetched) ==
    LET meta_json == IF fetched.ok THEN Some(fetched.val) ELSE None
        merged == merge_metadata(repo_meta, meta_json)
    IN Populated(PopulatedServer(srv, detected, populated, merged))

\* ------------------------------------------- scrape as a function
\* scrape against a remote with fixed responses: remote maps a URL to the
\* reply the server gives for it.  A URL outside its domain gets no reply.
Fetch(remote, url) ==
    IF url \in DOMAIN remote THEN remote[url] ELSE Err("Unanswered")

\* The for loop over the names left, starting from the records collected.
RECURSIVE scrape_repos(_, _, _, _)
scrape_repos(srv, it, populated, remote) ==
    IF it = <<>> THEN Ok(populated)
    ELSE LET status == scrape_status(Fetch(remote, StatusJsonUrl(srv, Head(it))))
         IN IF ~status.ok THEN Err(status.err)
            ELSE LET scraped == scrape_manifest(Head(it), status.val,
                                                Fetch(remote, ManifestUrl(srv, Head(it))))
                     res == collect_repo(srv, populated, scraped)
                 IN IF res.ok
                    THEN scrape_repos(srv, Tail(it), res.val, remote)
                    ELSE Err(res.err)

scrape(srv, repos, remote) ==
    LET locals == InitialLocals(srv, repos)
        resolved ==
            IF srv.backend_type = "S3" THEN resolve_S3(srv, locals)
            ELSE IF srv.backend_type = "AutoDetect"
            THEN resolve_AutoDetect(srv, locals, Fetch(remote, ReposJsonUrl(srv)))
            ELSE resolve_CVMFS(srv, locals, Fetch(remote, ReposJsonUrl(srv)))
    IN IF ~resolved.ok
       THEN Failed(as_failed_server(srv, resolved.err))
       ELSE LET collected == scrape_repos(srv, resolved.val.all_repos, <<>>, remote)
            IN IF ~collected.ok
               THEN Failed(as_failed_server(srv, collected.err))
               ELSE scrape_finish(srv, resolved.val.backend_detected, collected.val,
                                  resolved.val.metadata, Fetch(remote, MetaJsonUrl(srv)))

\* ------------------------------------------------------------------ steps
Send(url) ==
    /\ pending' = Some(url)
    /\ requests' = Append(requests, url)

Receive(reply) ==
    replies' = Append(replies, reply)

Return(result) ==
    /\ outcome' = Some(result)
    /\ pc' = "done"
    /\ pending' = None
    /\ UNCHANGED requests

SetLocals(locals) ==
    /\ all_repos' = locals.all_repos
    /\ backend_detected' = locals.backend_detected
    /\ metadata' = locals.metadata

\* Run the for loop up to its next await: the status request of the next
\* name, or the meta.json request when no name is left.
ForLoop(it) ==
    /\ iter' = it
    /\ IF it = <<>>
       THEN /\ pc' = "await_meta_json"
            /\ Send(MetaJsonUrl(server))
       ELSE /\ pc' = "await_status_json"
            /\ Send(StatusJsonUrl(server, Head(it)))
    /\ UNCHANGED outcome

Init ==
    /\ server \in Server
    /\ repositories \in SeqUpTo(Names, MaxRepos)
    /\ pc = "start"
    /\ pending = None
    /\ requests = <<>>
    /\ replies = <<>>
    /\ repo_json = None
    /\ all_repos = <<>>
    /\ iter = <<>>
    /\ repo_status = None
    /\ populated_repos = <<>>
    /\ backend_detected = server.backend_type
    /\ metadata = EmptyMetadataFromRepoJSON
    /\ outcome = None

\* scrape up to its first await (or to its return, in the S3 arm).
Begin ==
    /\ pc = "start"
    /\ LET locals == InitialLocals(server, repositories)
       IN IF server.backend_type = "S3"
          THEN LET res == resolve_S3(server, locals)
               IN IF res.ok
                  THEN SetLocals(res.val) /\ ForLoop(res.val.all_repos)
                  ELSE /\ SetLocals(locals)
                       /\ Return(Failed(as_failed_server(server, res.err)))
                       /\ UNCHANGED iter
          ELSE /\ SetLocals(locals)
               /\ pc' = "await_repos_json"
               /\ Send(ReposJsonUrl(server))
               /\ UNCHANGED <<iter, outcome>>
    /\ UNCHANGED <<server, repositories, replies, repo_json, repo_status, populated_repos>>

\* fetch_repos_json completes; the AutoDetect or CVMFS arm runs.
ReposJsonReply ==
    /\ pc = "await_repos_json"
    /\ \E fetched \in ReposJsonReplies :
         LET locals == [all_repos |-> all_repos, backend_detected |-> backend_detected,
                        metadata |-> metadata]
             res == IF server.backend_type = "AutoDetect"
                    THEN resolve_AutoDetect(server, locals, fetched)
                    ELSE resolve_CVMFS(server, locals, fetched)
         IN /\ Receive(fetched)
            /\ repo_json' = IF fetched.ok THEN Some(fetched.val) ELSE None
            /\ IF res.ok
               THEN SetLocals(res.val) /\ ForLoop(res.val.all_repos)
               ELSE /\ Return(Failed(as_failed_server(server, res.err)))
                    /\ UNCHANGED <<all_repos, backend_detected, metadata, iter>>
    /\ UNCHANGED <<server, repositories, repo_status, populated_repos>>

\* fetch_repository_status_json completes for the current name.
StatusJsonReply ==
    /\ pc = "await_status_json"
    /\ \E fetched \in StatusJsonReplies :
         LET res == scrape_status(fetched)
         IN /\ Receive(fetched)
            /\ IF res.ok
               THEN /\ repo_status' = Some(res.val)
                    /\ pc' = "await_manifest"
                    /\ Send(ManifestUrl(server, Head(iter)))
                    /\ UNCHANGED outcome
               ELSE /\ Return(Failed(as_failed_server(server, res.err)))
                    /\ UNCHANGED repo_status
    /\ UNCHANGED <<server, repositories, repo_json, all_repos, iter, populated_repos,
                   backend_detected, metadata>>

\* fetch_repository_manifest completes for the current name; the loop goes on.
ManifestReply ==
    /\ pc = "await_manifest"
    /\ \E fetched \in ManifestReplies :
         LET scraped == scrape_manifest(Head(iter), Unwrap(repo_status), fetched)
             res == collect_repo(server, populated_repos, scraped)
         IN /\ Receive(fetched)
            /\ IF res.ok
               THEN /\ populated_repos' = res.val
                    /\ ForLoop(Tail(iter))
               ELSE /\ Return(Failed(as_failed_server(server, res.err)))
                    /\ UNCHANGED <<populated_repos, iter>>
    /\ repo_status' = None
    /\ UNCHANGED <<server, repositories, repo_json, all_repos, backend_detected, metadata>>

\* fetch_meta_json completes; the metadata is merged and scrape returns.
MetaJsonReply ==
    /\ pc = "await_meta_json"
    /\ \E fetched \in MetaJsonReplies :
         /\ Receive(fetched)
         /\ Return(scrape_finish(server, backend_detected, populated_repos, metadata, fetched))
    /\ UNCHANGED <<server, repositories, repo_json, all_repos, iter, repo_status,
                   populated_repos, backend_detected, metadata>>

Next ==
    \/ Begin
    \/ ReposJsonReply
    \/ StatusJsonReply
    \/ ManifestReply
    \/ MetaJsonReply

Spec == Init /\ [][Next]_vars

\* --------------------------------------------------------- derived notions
Returned == outcome # None

Result == Unwrap(outcome)

IsPopulated == Returned /\ Result.variant = "Populated"

IsFailed == Returned /\ Result.variant = "Failed"

\* The names of a sequence of repository records.
RecordNames(records) == [i \in 1..Len(records) |-> records[i].name]

\* The caller-supplied names and the names listed in the parsed document.
SuppliedNames == SeqToSet(repositories)

DiscoveredNames ==
    IF IsSome(repo_json)
    THEN SeqToSet(EntryNames(Unwrap(repo_json).repositories))
             \cup SeqToSet(EntryNames(Unwrap(repo_json).replicas))
    ELSE {}

\* The indices of the answered requests for one document of one repository.
Answered(path, name) ==
    {i \in 1..Len(replies) : requests[i].path = path /\ requests[i].repo = name}

Issued(path, name) ==
    {i \in 1..Len(requests) : requests[i].path = path /\ requests[i].repo = name}

LastReply == replies[Len(replies)]

LastRequest == requests[Len(requests)]

\* The discovery fetch was answered by a transport failure.
DiscoveryFetchError ==
    /\ Len(replies) >= 1
    /\ requests[1].path = "info/v1/repositories.json"
    /\ ~replies[1].ok
    /\ replies[1].err = "FetchError"

\* The role and the replica list of the parsed document disagree.
TopologyMismatch ==
    /\ IsSome(repo_json)
    /\ \/ server.server_type = "Stratum0" /\ Len(Unwrap(repo_json).replicas) >= 1
       \/ server.server_type \in {"Stratum1", "SyncServer"} /\ Len(Unwrap(repo_json).replicas) = 0

RepoJsonFieldsAbsent(md) ==
    /\ md.schema_version = None
    /\ md.cvmfs_version = None
    /\ md.last_geodb_update = None
    /\ md.os_version_id = None
    /\ md.os_pretty_name = None
    /\ md.os_id = None

MetaJsonFieldsAbsent(md) ==
    /\ md.administrator = None
    /\ md.email = None
    /\ md.organisation = None
    /\ md.custom = None

\* ------------------------------------------------------------------ claims

\* C1: in every Populated outcome backend_detected is S3 or CVMFS, never
\* AutoDetect, whatever the configured backend, the role and the replies.
C1_DetectedNeverAutoDetect ==
    IsPopulated => Result.populated.backend_detected \in {"S3", "CVMFS"}

C1_Witness ==
    /\ IsPopulated
    /\ server.backend_type = "AutoDetect"
    /\ Result.populated.backend_detected = "CVMFS"

\* C2: a server configured as S3 with an empty supplied list ends Failed with
\* EmptyRepositoryList, whatever the role.
C2_EmptyS3Fails ==
    (server.backend_type = "S3" /\ repositories = <<>> /\ pc # "start") =>
        /\ IsFailed
        /\ Result.failed.error = FromScrapeError("EmptyRepositoryList")

C2_Witness ==
    /\ IsFailed
    /\ server.backend_type = "S3"
    /\ repositories = <<>>
    /\ server.server_type = "Stratum1"

\* C3: whenever repositories.json was fetched and the role disagrees with the
\* replica list (Stratum0 with replicas, Stratum1/SyncServer without), the
\* outcome is Failed with ServerTypeMismatch, in AutoDetect and CVMFS mode
\* alike and whatever else the document holds.
C3_MismatchIsServerTypeMismatch ==
    TopologyMismatch =>
        /\ IsFailed
        /\ Result.failed.error = FromScrapeError("ServerTypeMismatch")

\* C4: in AutoDetect mode a FetchError of the discovery fetch is not a
\* failure: the scrape goes on with the supplied names only, backend S3 and
\* no repositories.json metadata; a Failed outcome then comes from a
\* repository fetch, and a Populated one has backend_detected = S3 and the
\* six repositories.json fields absent.
C4_FetchErrorIsS3 ==
    (server.backend_type = "AutoDetect" /\ DiscoveryFetchError) =>
        /\ backend_detected = "S3"
        /\ SeqToSet(all_repos) = SuppliedNames
        /\ Len(replies) = 1 => (~Returned /\ IsSome(pending))
        /\ IsFailed => /\ Len(replies) >= 2
                       /\ ~LastReply.ok
                       /\ LastRequest.repo \in SuppliedNames
        /\ IsPopulated => /\ Result.populated.backend_detected = "S3"
                          /\ RepoJsonFieldsAbsent(Result.populated.metadata)
                          /\ SeqToSet(RecordNames(Result.populated.repositories)) = SuppliedNames

C4_Witness ==
    /\ server.backend_type = "AutoDetect"
    /\ DiscoveryFetchError
    /\ IsPopulated
    /\ Result.populated.repositories # <<>>

\* C5: in every Populated outcome the record names are exactly the union of
\* the supplied names and the names of the parsed document, each once.
C5_NamesAreDedupUnion ==
    IsPopulated =>
        LET names == RecordNames(Result.populated.repositories)
        IN /\ SeqToSet(names) = SuppliedNames \cup DiscoveredNames
           /\ \A i, j \in 1..Len(names) : names[i] = names[j] => i = j

C5_Witness ==
    /\ IsPopulated
    /\ SuppliedNames \ DiscoveredNames # {}
    /\ DiscoveredNames \ SuppliedNames # {}
    /\ Len(Unwrap(repo_json).replicas) >= 1

\* C6: during one scrape at most one status fetch and at most one manifest
\* fetch are issued for each name.
C6_NoNameScrapedTwice ==
    \A n \in Names :
        /\ Cardinality(Issued(".cvmfs_status.json", n)) <= 1
        /\ Cardinality(Issued(".cvmfspublished", n)) <= 1

C6_Witness ==
    /\ pc = "done"
    /\ Len(repositories) >= 2
    /\ repositories[1] = repositories[2]
    /\ repositories[1] \in DiscoveredNames
    /\ Cardinality(Issued(".cvmfs_status.json", repositories[1])) = 1
    /\ Cardinality(Issued(".cvmfspublished", repositories[1])) = 1

\* C7: a failed status or manifest fetch of any repository makes the outcome
\* Failed; a Populated outcome has a record for every name of the reconciled
\* set, and both fetches of every such name succeeded.
C7_NoPartialList ==
    /\ (Returned /\ \E i \in 1..Len(replies) : requests[i].repo # "" /\ ~replies[i].ok)
            => IsFailed
    /\ IsPopulated =>
        /\ RecordNames(Result.populated.repositories) = all_repos
        /\ \A n \in SeqToSet(all_repos) :
            /\ \E i \in Answered(".cvmfs_status.json", n) : replies[i].ok
            /\ \E i \in Answered(".cvmfspublished", n) : replies[i].ok

C7_Witness ==
    /\ IsFailed
    /\ populated_repos # <<>>
    /\ LastRequest.path = ".cvmfspublished"
    /\ ~LastReply.ok

\* C8: once backend resolution and every repository scrape have succeeded
\* (the meta.json request is issued), the outcome is Populated whatever the
\* reply; a failed meta.json fetch leaves administrator, email, organisation
\* and custom absent, and no Failed outcome comes from meta.json.
C8_MetaJsonNeverFatal ==
    /\ (Returned /\ Issued("info/v1/meta.json", "") # {}) =>
            /\ IsPopulated
            /\ ~LastReply.ok => MetaJsonFieldsAbsent(Result.populated.metadata)
    /\ (Returned /\ requests # <<>> /\ LastRequest.path = "info/v1/meta.json") => IsPopulated
    /\ IsPopulated => LastRequest.path = "info/v1/meta.json"

C8_Witness ==
    /\ IsPopulated
    /\ ~LastReply.ok
    /\ Result.populated.repositories # <<>>
    /\ Result.populated.backend_detected = "CVMFS"

\* C9: the merged metadata takes administrator, email, organisation and
\* custom from meta.json alone (absent without it) and the six other fields
\* from the repositories.json record alone (absent when none was parsed).
C9_MergeNoCrossContamination ==
    IsPopulated =>
        LET md == Result.populated.metadata
            meta == LastReply
        IN /\ md.administrator = IF meta.ok THEN Some(meta.val.administrator) ELSE None
           /\ md.email = IF meta.ok THEN Some(meta.val.email) ELSE None
           /\ md.organisation = IF meta.ok THEN Some(meta.val.organisation) ELSE None
           /\ md.custom = IF meta.ok THEN Some(meta.val.custom) ELSE None
           /\ md.schema_version = metadata.schema_version
           /\ md.cvmfs_version = metadata.cvmfs_version
           /\ md.last_geodb_update = metadata.last_geodb_update
           /\ md.os_version_id = metadata.os_version_id
           /\ md.os_pretty_name = metadata.os_pretty_name
           /\ md.os_id = metadata.os_id
           /\ IF IsSome(repo_json)
              THEN LET doc == Unwrap(repo_json)
                   IN /\ md.schema_version = Some(doc.schema)
                      /\ IsSome(md.cvmfs_version) = IsSome(doc.cvmfs_version)
                      /\ md.last_geodb_update = doc.last_geodb_update
                      /\ md.os_version_id = doc.os_version_id
                      /\ md.os_pretty_name = doc.os_pretty_name
                      /\ md.os_id = doc.os_id
              ELSE RepoJsonFieldsAbsent(md)

C9_Witness ==
    /\ IsPopulated
    /\ LastReply.ok
    /\ IsSome(repo_json)
    /\ Result.populated.metadata.cvmfs_version = Some([major |-> 2, minor |-> 9, patch |-> 0])
    /\ Result.populated.metadata.administrator = Some("Jane Doe")

\* C10: every Populated outcome whose backend_detected is S3 has an empty
\* metadata record: all ten fields absent, whatever meta.json answers.
C10_S3MetadataEmpty ==
    (IsPopulated /\ Result.populated.backend_detected = "S3") =>
        /\ RepoJsonFieldsAbsent(Result.populated.metadata)
        /\ MetaJsonFieldsAbsent(Result.populated.metadata)

\* The discovery fetch was answered, with a document or with an error.
DiscoveryAnswered ==
    /\ Len(replies) >= 1
    /\ requests[1].path = "info/v1/repositories.json"

\* The version string of the parsed document is not a semantic version.
VersionMalformed ==
    /\ IsSome(repo_json)
    /\ IsSome(Unwrap(repo_json).cvmfs_version)
    /\ ~ParseVersion(Unwrap(Unwrap(repo_json).cvmfs_version)).ok

\* C11: in CVMFS mode a failed fetch or parse of repositories.json ends the
\* scrape Failed with that error and is never downgraded: a Populated outcome
\* configured CVMFS is detected CVMFS, one configured S3 is detected S3.
C11_ExplicitModesNeverDowngrade ==
    /\ (server.backend_type = "CVMFS" /\ DiscoveryAnswered /\ ~replies[1].ok) =>
            /\ IsFailed
            /\ Result.failed.error = FromScrapeError(replies[1].err)
            /\ Len(requests) = 1
    /\ (IsPopulated /\ server.backend_type = "CVMFS") =>
            Result.populated.backend_detected = "CVMFS"
    /\ (IsPopulated /\ server.backend_type = "S3") =>
            Result.populated.backend_detected = "S3"

C11_Witness ==
    /\ server.backend_type = "CVMFS"
    /\ DiscoveryAnswered
    /\ ~replies[1].ok
    /\ replies[1].err = "FetchError"
    /\ IsFailed

\* C12: a finished scrape has returned exactly one of Populated and Failed;
\* either carries hostname, server_type and backend_type of the Server, and
\* Failed carries the error that ended the scrape.
C12_OutcomeCarriesDescriptor ==
    /\ (pc = "done") = Returned
    /\ Returned =>
        /\ is_ok(Result) # is_failed(Result)
        /\ is_ok(Result) =>
            /\ Result.populated.hostname = server.hostname
            /\ Result.populated.server_type = server.server_type
            /\ Result.populated.backend_type = server.backend_type
        /\ is_failed(Result) =>
            /\ Result.failed.hostname = server.hostname
            /\ Result.failed.server_type = server.server_type
            /\ Result.failed.backend_type = server.backend_type
            /\ IF requests = <<>>
               THEN Result.failed.error = FromScrapeError("EmptyRepositoryList")
               ELSE IF ~LastReply.ok
               THEN Result.failed.error =
                        IF LastRequest.path = ".cvmfspublished"
                        THEN FromManifestError(LastReply.err)
                        ELSE FromScrapeError(LastReply.err)
               ELSE /\ LastRequest.path = "info/v1/repositories.json"
                    /\ Result.failed.error \in {FromScrapeError("ServerTypeMismatch"),
                                                FromScrapeError("ConversionError")}

C12_Witness ==
    /\ IsFailed
    /\ server.backend_type = "CVMFS"
    /\ server.server_type = "SyncServer"
    /\ Result.failed.error = FromManifestError("ParseError")

\* C13: get_populated_server succeeds exactly on a Populated outcome and
\* get_failed_server exactly on a Failed one; the wrong variant is a
\* TypeError, and exactly one of is_ok and is_failed holds.
C13_WrongVariantIsTypeError ==
    Returned =>
        LET populated == get_populated_server(Result)
            failed == get_failed_server(Result)
        IN /\ is_ok(Result) # is_failed(Result)
           /\ populated.ok = is_ok(Result)
           /\ failed.ok = is_failed(Result)
           /\ is_ok(Result) => /\ populated.val = Result.populated
                               /\ failed.err.variant = "TypeError"
           /\ is_failed(Result) => /\ failed.val = Result.failed
                                   /\ populated.err.variant = "TypeError"

C13_Witness ==
    /\ IsFailed
    /\ ~get_populated_server(Result).ok
    /\ get_populated_server(Result).err =
           TypeError("cvmfs.example.org", " is a failed server")
    /\ get_failed_server(Result).ok

\* C14: in AutoDetect mode an error of the discovery fetch other than
\* FetchError ends the scrape Failed with that error; the backend is not
\* taken to be S3 and nothing more is fetched.
C14_OtherErrorIsFatal ==
    (server.backend_type = "AutoDetect" /\ DiscoveryAnswered
        /\ ~replies[1].ok /\ replies[1].err # "FetchError") =>
        /\ IsFailed
        /\ Result.failed.error = FromScrapeError(replies[1].err)
        /\ backend_detected # "S3"
        /\ Len(requests) = 1

C14_Witness ==
    /\ server.backend_type = "AutoDetect"
    /\ DiscoveryAnswered
    /\ ~replies[1].ok
    /\ replies[1].err = "ParseError"
    /\ IsFailed

\* C15 (as claimed): whenever repositories.json is fetched with a version
\* string that is not a semantic version, the outcome is Failed with
\* ConversionError and only the discovery request was issued.
C15_MalformedVersionIsConversionError ==
    VersionMalformed =>
        /\ IsFailed
        /\ Result.failed.error = FromScrapeError("ConversionError")
        /\ Len(requests) = 1

\* C15 (amended): such a scrape ends Failed in backend resolution, with only
\* the discovery request issued; the error is ConversionError, except in
\* AutoDetect mode when the document also contradicts the role, where the
\* validation that runs first reports ServerTypeMismatch.
C15_MalformedVersionFailsResolution ==
    VersionMalformed =>
        /\ IsFailed
        /\ Len(requests) = 1
        /\ requests[1].path = "info/v1/repositories.json"
        /\ Result.failed.error =
              IF server.backend_type = "AutoDetect" /\ TopologyMismatch
              THEN FromScrapeError("ServerTypeMismatch")
              ELSE FromScrapeError("ConversionError")

C15_Witness ==
    /\ VersionMalformed
    /\ server.backend_type = "AutoDetect"
    /\ ~TopologyMismatch
    /\ IsFailed
    /\ Result.failed.error = FromScrapeError("ConversionError")

\* The responses the remote has given in this scrape, by URL.
AnsweredUrls == {requests[i] : i \in 1..Len(replies)}

LogRemote ==
    [u \in AnsweredUrls |-> replies[CHOOSE i \in 1..Len(replies) : requests[i] = u]]

\* Two outcomes that differ at most in the configured backend they record.
SameButConfigured(o, p) ==
    /\ o.variant = p.variant
    /\ o.variant = "Failed" =>
           [o.failed EXCEPT !.backend_type = "CVMFS"] = [p.failed EXCEPT !.backend_type = "CVMFS"]
    /\ o.variant = "Populated" =>
           [o.populated EXCEPT !.backend_type = "CVMFS"] = [p.populated EXCEPT !.backend_type = "CVMFS"]

\* C16: with a repositories.json that was fetched, a scrape configured CVMFS
\* and a scrape configured AutoDetect of the same server, with the same
\* supplied names and the same responses, return the same outcome up to the
\* configured backend they record.
C16_ModesAgree ==
    (pc = "done" /\ DiscoveryAnswered /\ replies[1].ok) =>
        LET other == IF server.backend_type = "CVMFS" THEN "AutoDetect" ELSE "CVMFS"
        IN SameButConfigured(Result,
                             scrape([server EXCEPT !.backend_type = other],
                                    repositories, LogRemote))

\* The names of a set in ascending order.
SortedNames(S) ==
    CHOOSE q \in [1..Cardinality(S) -> S] :
        \A i, j \in 1..Cardinality(S) : i < j => NameLess(q[i], q[j])

\* C17: the stages of a scrape are ordered.  A request is issued only when
\* every earlier one is answered; repositories.json is the first request and,
\* outside S3 mode, precedes every repository request; meta.json is the last
\* request and is issued only once status and manifest of every name of the
\* reconciled set have been fetched successfully; a scrape that ends Failed
\* has issued no meta.json request.
C17_StagesOrdered ==
    /\ Len(requests) <= Len(replies) + 1
    /\ \A i \in 1..Len(requests) :
        /\ requests[i].path = "info/v1/repositories.json" => i = 1
        /\ (requests[i].repo # "" /\ server.backend_type # "S3") =>
              /\ i >= 2
              /\ requests[1].path = "info/v1/repositories.json"
        /\ requests[i].path = "info/v1/meta.json" =>
              /\ i = Len(requests)
              /\ server.backend_type # "S3" => requests[1].path = "info/v1/repositories.json"
              /\ \A n \in SeqToSet(all_repos) :
                    /\ \E j \in 1..(i - 1) :
                          requests[j] = StatusJsonUrl(server, n) /\ replies[j].ok
                    /\ \E j \in 1..(i - 1) :
                          requests[j] = ManifestUrl(server, n) /\ replies[j].ok
    /\ IsFailed => Issued("info/v1/meta.json", "") = {}

C17_Witness ==
    /\ IsPopulated
    /\ server.backend_type = "CVMFS"
    /\ Len(all_repos) = 2
    /\ Len(requests) = 6

\* C18: in S3 mode no repositories.json request is ever issued; the requests
\* are status and manifest of supplied names and meta.json; the reconciled
\* set is the supplied names without repeats; the six repositories.json
\* fields stay absent.
C18_S3NeverFetchesDiscovery ==
    server.backend_type = "S3" =>
        /\ \A i \in 1..Len(requests) :
            /\ requests[i].path # "info/v1/repositories.json"
            /\ \/ requests[i] = MetaJsonUrl(server)
               \/ /\ requests[i].repo \in SuppliedNames
                  /\ requests[i].path \in {".cvmfs_status.json", ".cvmfspublished"}
        /\ repo_json = None
        /\ RepoJsonFieldsAbsent(metadata)
        /\ pc # "start" => all_repos = SortedNames(SuppliedNames)
        /\ IsPopulated =>
            /\ RepoJsonFieldsAbsent(Result.populated.metadata)
            /\ RecordNames(Result.populated.repositories) = SortedNames(SuppliedNames)
            /\ Result.populated.backend_detected = "S3"

C18_Witness ==
    /\ server.backend_type = "S3"
    /\ IsPopulated
    /\ Len(repositories) = 2
    /\ repositories[1] = repositories[2]
    /\ Len(requests) = 3

\* C19: the outcome depends on the supplied list only through the set of its
\* names: against the same responses, every supplied list gives the outcome
\* of the list of its names in ascending order without repeats (so any two
\* lists with the same names, permuted or with repeats, give the same
\* outcome, records in the same order and the same error).
C19_OrderAndMultiplicityIrrelevant ==
    pc = "done" =>
        scrape(server, SortedNames(SuppliedNames), LogRemote) = Result

C19_Witness ==
    /\ IsPopulated
    /\ Len(repositories) = 2
    /\ NameLess(repositories[2], repositories[1])
    /\ RecordNames(Result.populated.repositories) = <<repositories[2], repositories[1]>>
    /\ SortedNames(SuppliedNames) # repositories

\* C20: repository collection is sequential and stops at its first failure.
\* At most one request is in flight; the names are taken in the order of the
\* reconciled set; a manifest request directly follows the successful status
\* request of the same name, so a failed status fetch leaves the manifest
\* unfetched; a failed status or manifest fetch is the last request of the
\* scrape and ends it Failed.
C20_SequentialFailFast ==
    /\ Len(requests) - Len(replies) \in {0, 1}
    /\ IsSome(pending) = (Len(requests) = Len(replies) + 1)
    /\ IsSome(pending) => Unwrap(pending) = LastRequest
    /\ LET started == SelectSeq(requests, LAMBDA u : u.path = ".cvmfs_status.json")
       IN /\ Len(started) <= Len(all_repos)
          /\ \A k \in 1..Len(started) : started[k].repo = all_repos[k]
    /\ \A j \in 1..Len(requests) :
          requests[j].path = ".cvmfspublished" =>
              /\ j >= 2
              /\ requests[j - 1] = StatusJsonUrl(server, requests[j].repo)
              /\ replies[j - 1].ok
    /\ \A i \in 1..Len(replies) :
          (requests[i].repo # "" /\ ~replies[i].ok) =>
              /\ i = Len(requests)
              /\ IsFailed
              /\ requests[i].path = ".cvmfs_status.json" =>
                     Issued(".cvmfspublished", requests[i].repo) = {}

C20_Witness ==
    /\ IsFailed
    /\ Len(all_repos) = 2
    /\ LastRequest = StatusJsonUrl(server, all_repos[1])
    /\ ~LastReply.ok
    /\ Issued(".cvmfspublished", all_repos[1]) = {}
    /\ Issued(".cvmfs_status.json", all_repos[2]) = {}

\* The scrape ended Failed on the fetch of a repository document.
RepoFetchFailed ==
    /\ IsFailed
    /\ Len(requests) >= 1
    /\ LastRequest.repo # ""
    /\ ~LastReply.ok

\* The reconciled set: supplied and discovered names together.
ReconciledNames == SuppliedNames \cup DiscoveredNames

Reverse(list) == [i \in 1..Len(list) |-> list[Len(list) + 1 - i]]

\* The replies of a repository that fails: its status fetch fails and its
\* manifest is never asked for, or its status is fetched and its manifest
\* fetch fails.
FailingRepoReplies ==
    {<<Err(e), Err("Unanswered")>> : e \in FetchJsonErrors}
        \cup {<<Ok(d), Err(e)>> : d \in StatusJSON, e \in ManifestErrors}

\* The remotes that answer as the log does and in which every given name
\* fails too.
RemotesWhereAlsoFail(names) ==
    { LogRemote @@ [u \in {StatusJsonUrl(server, n) : n \in names}
                            \cup {ManifestUrl(server, n) : n \in names} |->
                       IF u.path = ".cvmfs_status.json" THEN fails[u.repo][1]
                       ELSE fails[u.repo][2]]
      : fails \in [names -> FailingRepoReplies] }

\* The same remote listing the entries of repositories.json backwards.
DiscoveredBackwards(remote) ==
    LET url == ReposJsonUrl(server)
    IN IF url \in DOMAIN remote /\ remote[url].ok
       THEN [remote EXCEPT ![url] = Ok([@.val EXCEPT !.repositories = Reverse(@),
                                                     !.replicas = Reverse(@)])]
       ELSE remote

\* C21: a scrape that fails on a repository carries the error of the first
\* failing name in ascending order of the reconciled set.  The failing name
\* is in the reconciled set, the outcome carries the error of its failed
\* fetch, every smaller name had status and manifest fetched successfully
\* before, and no larger name was requested; and against a remote where the
\* larger names fail as well, in any way, the scrape of the supplied list
\* backwards, with the entries of repositories.json backwards, has this same
\* outcome.
C21_FirstFailingInNameOrder ==
    RepoFetchFailed =>
        LET failing == LastRequest.repo
            larger == {n \in ReconciledNames : NameLess(failing, n)}
        IN /\ failing \in ReconciledNames
           /\ Result.failed.error =
                  IF LastRequest.path = ".cvmfs_status.json"
                  THEN FromScrapeError(LastReply.err)
                  ELSE FromManifestError(LastReply.err)
           /\ \A n \in ReconciledNames :
                 NameLess(n, failing) =>
                     \E i, j \in 1..(Len(requests) - 1) :
                         /\ i < j
                         /\ requests[i] = StatusJsonUrl(server, n) /\ replies[i].ok
                         /\ requests[j] = ManifestUrl(server, n) /\ replies[j].ok
           /\ \A n \in larger :
                 Issued(".cvmfs_status.json", n) = {} /\ Issued(".cvmfspublished", n) = {}
           /\ \A remote \in RemotesWhereAlsoFail(larger) :
                 scrape(server, Reverse(repositories), DiscoveredBackwards(remote)) = Result

C21_Witness ==
    /\ RepoFetchFailed
    /\ server.backend_type = "CVMFS"
    /\ Len(all_repos) = 2
    /\ repositories = <<all_repos[2]>>
    /\ DiscoveredNames = {all_repos[1]}
    /\ LastRequest = ManifestUrl(server, all_repos[1])

\* C22: EmptyRepositoryList is raised only in explicit S3 mode.  A Failed
\* outcome with that error is configured S3, with an empty supplied list and
\* no request issued; in AutoDetect mode an empty supplied list with a
\* FetchError of the discovery fetch never fails: the scrape goes on to
\* meta.json and returns Populated with backend_detected = S3 and no
\* repository; every Populated outcome configured S3 has a repository.
C22_EmptyListFatalOnlyInS3 ==
    /\ (IsFailed /\ Result.failed.error = FromScrapeError("EmptyRepositoryList")) =>
            /\ server.backend_type = "S3"
            /\ repositories = <<>>
            /\ requests = <<>>
    /\ (server.backend_type = "AutoDetect" /\ repositories = <<>> /\ DiscoveryFetchError) =>
            /\ ~IsFailed
            /\ ~Returned => pending = Some(MetaJsonUrl(server))
            /\ Returned =>
                  /\ IsPopulated
                  /\ Result.populated.backend_type = "AutoDetect"
                  /\ Result.populated.backend_detected = "S3"
                  /\ Result.populated.repositories = <<>>
    /\ (IsPopulated /\ server.backend_type = "S3") =>
            /\ Result.populated.repositories # <<>>
            /\ repositories # <<>>

C22_Witness ==
    /\ server.backend_type = "AutoDetect"
    /\ repositories = <<>>
    /\ DiscoveryFetchError
    /\ IsPopulated
    /\ Result.populated.backend_detected = "S3"
    /\ Result.populated.repositories = <<>>

\* A Populated outcome without repositories of a server configured CVMFS.
C22_EmptyPopulatedUnderCVMFS ==
    /\ server.backend_type = "CVMFS"
    /\ IsPopulated
    /\ Result.populated.repositories = <<>>

\* A Populated outcome with repositories of a server configured S3.
C22_PopulatedUnderS3 ==
    /\ server.backend_type = "S3"
    /\ IsPopulated
    /\ Result.populated.repositories # <<>>

====
